---- MODULE Spec2Model ----
(***************************************************************************)
(* Model of homework.py: the Telegram bot that polls the homework-status   *)
(* API (get_api_answer), validates the answer (check_response), formats    *)
(* the first record (parse_status) and notifies the chat (send_message)    *)
(* from the endless loop of main().                                        *)
(*                                                                         *)
(* Python values are modelled as follows.                                  *)
(*  - None, and a key that dict.get() does not find, is the string "None". *)
(*  - A dict with the one key the code uses is a function whose domain is  *)
(*    {} or {KEY}; dict equality is function equality.                     *)
(*  - A parsed JSON body is a record [type, keys, homeworks_type,          *)
(*    homeworks, current_date]; an unassigned local has type "unbound".    *)
(*  - A string built by an f-string is the sequence of its pieces.         *)
(*  - An exception is the name of its class; "none" is no exception.       *)
(* Strings of the source written in Cyrillic are given in Latin letters.   *)
(***************************************************************************)
EXTENDS Integers, Sequences, FiniteSets, TLC

(***************************************************************************)
(* Bounds of the model.                                                    *)
(***************************************************************************)
MaxHomeworks == 2      \* longest list under the key 'homeworks'
MaxDate == 2           \* largest current_date the server reports

(***************************************************************************)
(* Program constants.                                                      *)
(***************************************************************************)
HTTP_OK == 200                 \* HTTPStatus.OK
RETRY_TIME == 600              \* seconds of sleep that end a cycle

None == "None"
KEY == "soobshchenie"          \* the key of current_report / prev_report

HOMEWORK_VERDICTS ==
    [approved  |-> "Rabota proverena: revyueru vsyo ponravilos. Ura!",
     reviewing |-> "Rabota vzyata na proverku revyuerom.",
     rejected  |-> "Rabota proverena: u revyuera est zamechaniya."]

(***************************************************************************)
(* The values the outside world can hand to the program.                   *)
(***************************************************************************)
Names == {"proj1", "proj2"}
Statuses == DOMAIN HOMEWORK_VERDICTS \cup {"unknown"}

\* One element of the list 'homeworks': both fields present, or one missing.
Homeworks ==
    [homework_name : Names, status : Statuses]
      \cup {[homework_name |-> None, status |-> "approved"],
            [homework_name |-> None, status |-> "unknown"],
            [homework_name |-> "proj1", status |-> None]}

HomeworkLists == UNION {[1..n -> Homeworks] : n \in 0..MaxHomeworks}

Dates == 1..MaxDate

Unbound == [type |-> "unbound", keys |-> {}, homeworks_type |-> "None",
            homeworks |-> <<>>, current_date |-> 0]
NoneValue == [Unbound EXCEPT !.type = "None"]
ListValue == [Unbound EXCEPT !.type = "list"]

\* JSON objects: with or without 'homeworks' (a list or a string), with or
\* without 'current_date'.
DictValues ==
    {[type |-> "dict", keys |-> {"homeworks"} \cup k, homeworks_type |-> "list",
      homeworks |-> h, current_date |-> d] :
        k \in {{"current_date"}}, h \in HomeworkLists, d \in Dates}
    \cup
    {[type |-> "dict", keys |-> {"homeworks"}, homeworks_type |-> "list",
      homeworks |-> h, current_date |-> 0] : h \in HomeworkLists}
    \cup
    {[type |-> "dict", keys |-> {"homeworks"}, homeworks_type |-> "str",
      homeworks |-> <<>>, current_date |-> 0],
     [type |-> "dict", keys |-> {"current_date"}, homeworks_type |-> "None",
      homeworks |-> <<>>, current_date |-> 1],
     [type |-> "dict", keys |-> {}, homeworks_type |-> "None",
      homeworks |-> <<>>, current_date |-> 0]}

JsonValues == DictValues \cup {ListValue}

\* What requests.get() and response.json() do in one call of get_api_answer:
\* error is the exception requests.get() raises ("none": it returns),
\* status_code the status of the answer, json whether the body parses,
\* body the parsed body.
HttpAnswers ==
    {[error |-> "none", status_code |-> HTTP_OK, json |-> "valid", body |-> b] :
        b \in JsonValues}
    \cup
    {[error |-> "none", status_code |-> HTTP_OK, json |-> "invalid",
      body |-> Unbound],
     [error |-> "none", status_code |-> 503,
      json |-> "valid", body |-> Unbound]}
    \cup
    {[error |-> e, status_code |-> HTTP_OK, json |-> "valid", body |-> Unbound] :
        e \in {"RequestException", "ValueError", "Exception"}}

NoAnswer == [error |-> "none", status_code |-> HTTP_OK, json |-> "valid",
             body |-> Unbound]

\* What bot.send_message() does in one call.
Deliveries == {"ok", "TelegramError"}

(***************************************************************************)
(* Dicts.                                                                  *)
(***************************************************************************)
EmptyDict == [k \in {} |-> None]

DictSet(d, k, v) == [x \in DOMAIN d \cup {k} |-> IF x = k THEN v ELSE d[x]]

DictGet(d, k) == IF k \in DOMAIN d THEN d[k] ELSE None

(***************************************************************************)
(* Results of a call: the value returned, or the exception raised.         *)
(***************************************************************************)
Return(v) == [exc |-> "none", value |-> v]
Raise(e, v) == [exc |-> e, value |-> v]

(***************************************************************************)
(* Exception classes: the classes each class is an instance of.            *)
(***************************************************************************)
Bases(e) ==
    CASE e = "json.JSONDecodeError" -> {e, "ValueError", "Exception"}
      [] e = "RequestException"     -> {e, "OSError", "Exception"}
      [] e = "ConnectionError"      -> {e, "OSError", "Exception"}
      [] e = "UnboundLocalError"    -> {e, "NameError", "Exception"}
      [] OTHER                      -> {e, "Exception"}

IsInstance(e, class) == class \in Bases(e)

(***************************************************************************)
(* send_message(bot, message): True when bot.send_message() returns, False *)
(* when it raises telegram.error.TelegramError; it raises nothing.         *)
(***************************************************************************)
\* send_message() without its except clause: TelegramError leaves it.
send_message_raises(delivery) ==
    IF delivery = "TelegramError" THEN Raise("TelegramError", FALSE)
    ELSE Return(TRUE)

send_message(delivery) ==
    IF delivery = "TelegramError" THEN Return(FALSE) ELSE Return(TRUE)

(***************************************************************************)
(* get_api_answer(current_timestamp).  GetApiAnswerTry is the body of the  *)
(* try statement: requests.get(), the status check, response.json().       *)
(* get_api_answer passes what the body raises through the except clauses,  *)
(* in the order they are written.  The WrongResponse of the status check   *)
(* is raised inside the try statement, so the clauses see it too.          *)
(***************************************************************************)
GetApiAnswerTry(answer) ==
    IF answer.error # "none" THEN Raise(answer.error, Unbound)
    ELSE IF answer.status_code # HTTP_OK THEN Raise("WrongResponse", Unbound)
    ELSE IF answer.json # "valid" THEN Raise("json.JSONDecodeError", Unbound)
    ELSE Return(answer.body)

get_api_answer(answer) ==
    LET r == GetApiAnswerTry(answer)
    IN  IF r.exc = "none" THEN r
        ELSE IF IsInstance(r.exc, "json.JSONDecodeError")
             THEN Raise("JSONDecodeError", Unbound)
        ELSE IF IsInstance(r.exc, "RequestException")
             THEN Raise("RequestError", Unbound)
        ELSE IF IsInstance(r.exc, "ValueError")
             THEN Return(NoneValue)        \* logged; the function ends
        ELSE Raise("ConnectionError", Unbound)

(***************************************************************************)
(* check_response(response).                                               *)
(***************************************************************************)
\* check_response() reading response.get('homeworks') without the test
\* for the key: a missing key is reported as a value that is no list.
check_response_no_key_test(resp) ==
    IF resp.type # "dict" THEN Raise("TypeError", <<>>)
    ELSE IF resp.homeworks_type # "list" THEN Raise("KeyError", <<>>)
    ELSE Return(resp.homeworks)

\* check_response() with `if not homeworks:` an empty list is an empty answer.
check_response_rejects_empty(resp) ==
    IF resp.type # "dict" THEN Raise("TypeError", <<>>)
    ELSE IF "homeworks" \notin resp.keys \/ resp.homeworks = <<>>
         THEN Raise("EmptyAnswersAPI", <<>>)
    ELSE IF resp.homeworks_type # "list" THEN Raise("KeyError", <<>>)
    ELSE Return(resp.homeworks)

check_response(resp) ==
    IF resp.type # "dict" THEN Raise("TypeError", <<>>)
    ELSE IF "homeworks" \notin resp.keys THEN Raise("EmptyAnswersAPI", <<>>)
    ELSE IF resp.homeworks_type # "list" THEN Raise("KeyError", <<>>)
    ELSE Return(resp.homeworks)

(***************************************************************************)
(* parse_status(homework): the text of the notification.                   *)
(***************************************************************************)
\* parse_status() without the test of the status against the table:
\* HOMEWORK_VERDICTS.get() gives None for a status it does not hold.
parse_status_any_status(homework) ==
    LET homework_name == homework.homework_name
        homework_status == homework.status
        verdict == IF homework_status \in DOMAIN HOMEWORK_VERDICTS
                   THEN HOMEWORK_VERDICTS[homework_status] ELSE None
    IN  IF homework_name = None THEN Raise("KeyError", <<>>)
        ELSE IF homework_status = None THEN Raise("KeyError", <<>>)
        ELSE Return(<<"Izmenilsya status proverki raboty \"", homework_name,
                      "\". ", verdict, "homework_name = ", homework_name,
                      ", verdict = ", verdict>>)

parse_status(homework) ==
    LET homework_name == homework.homework_name
        homework_status == homework.status
    IN  IF homework_name = None THEN Raise("KeyError", <<>>)
        ELSE IF homework_status = None THEN Raise("KeyError", <<>>)
        ELSE IF homework_status \notin DOMAIN HOMEWORK_VERDICTS
             THEN Raise("ValueError", <<>>)
        ELSE Return(<<"Izmenilsya status proverki raboty \"", homework_name,
                      "\". ", HOMEWORK_VERDICTS[homework_status],
                      "homework_name = ", homework_name, ", verdict = ",
                      HOMEWORK_VERDICTS[homework_status]>>)

(***************************************************************************)
(* The state of the program.                                               *)
(***************************************************************************)
VARIABLES
    PRACTICUM_TOKEN,    \* TRUE when the environment sets it (to a non-empty string)
    TELEGRAM_TOKEN,
    TELEGRAM_CHAT_ID,
    pc,                 \* where main() is
    current_timestamp,  \* locals of main()
    current_report,
    prev_report,
    response,
    message,            \* <<>> while unassigned
    exc,                \* the exception in flight, "none" if there is none
    cause,              \* the exception the try body of main() raised
    answer,             \* what the HTTP service did in this cycle
    sent,               \* calls of bot.send_message() in this cycle: [text, ok]
    trace,              \* "fetch", "send", "sleep" events of this cycle
    timestamp0,         \* current_timestamp when this cycle began
    report0,            \* prev_report when this cycle began
    slept,              \* seconds this cycle has slept
    previous            \* the text parsed by the cycle before this one,
                        \* <<>> if it parsed none

vars == <<PRACTICUM_TOKEN, TELEGRAM_TOKEN, TELEGRAM_CHAT_ID, pc,
          current_timestamp, current_report, prev_report, response, message,
          exc, cause, answer, sent, trace, timestamp0, report0, slept,
          previous>>

env == <<PRACTICUM_TOKEN, TELEGRAM_TOKEN, TELEGRAM_CHAT_ID>>
locals == <<current_timestamp, current_report, prev_report, response, message>>
history == <<answer, sent, trace, timestamp0, report0, slept, previous>>

(***************************************************************************)
(* check_tokens(): the third entry of the tuple names the chat id but      *)
(* holds TELEGRAM_TOKEN.                                                   *)
(***************************************************************************)
check_tokens ==
    LET tokens == <<PRACTICUM_TOKEN, TELEGRAM_TOKEN, TELEGRAM_TOKEN>>
    IN  \A i \in DOMAIN tokens : tokens[i]

\* statuses[-1]: the last record of the list, not the first.
Last(list) == list[Len(list)]

\* statuses[0]
First(list) == list[1]

\* The report keyed on the record's name instead of its status.
ReportValueByName(homework) == homework.homework_name

\* homework_status = status.get('status'): the value the report holds.
ReportValue(homework) == homework.status

\* statuses is the list check_response() returned: response['homeworks'].
statuses == check_response(response).value

\* `if send_message is True:` a function is not the object True.
SendMessageIsFalse == FALSE

\* `if send_message:` tests the function, which is an object and so true.
SendMessageIsTrue == TRUE

\* response.get('current_date', current_timestamp)
GetCurrentDate(resp, default) ==
    IF "current_date" \in resp.keys THEN resp.current_date ELSE default

\* `current_report is not prev_report`: two dicts are never the same object.
ReportIsNot(current, prev) == TRUE

\* The report differs from the previous one: current_report != prev_report.
ReportChanged(current, prev) == current # prev

(***************************************************************************)
(* `except response is None:` evaluates its expression when the try body   *)
(* has raised: an unassigned response raises UnboundLocalError, and a bool *)
(* is no exception class, which raises TypeError.  Either way the clause   *)
(* raises, and `except Exception` below it is never tried.                 *)
(***************************************************************************)
ExceptClause(resp) ==
    IF resp.type = "unbound" THEN "UnboundLocalError" ELSE "TypeError"

\* message = f'Sboy v rabote programmy: {error}'
FailureMessage(error) == <<"Sboy v rabote programmy: ", error>>

Init ==
    /\ PRACTICUM_TOKEN \in BOOLEAN
    /\ TELEGRAM_TOKEN \in BOOLEAN
    /\ TELEGRAM_CHAT_ID \in BOOLEAN
    /\ pc = "main"
    /\ current_timestamp = 0
    /\ current_report = EmptyDict
    /\ prev_report = EmptyDict
    /\ response = Unbound
    /\ message = <<>>
    /\ exc = "none"
    /\ cause = "none"
    /\ answer = NoAnswer
    /\ sent = <<>>
    /\ trace = <<>>
    /\ timestamp0 = 0
    /\ report0 = EmptyDict
    /\ slept = 0
    /\ previous = <<>>

\* main() up to the loop: check_tokens(), the bot, the initial locals.
Main ==
    /\ pc = "main"
    /\ IF check_tokens
       THEN pc' = "while" /\ exc' = exc
       ELSE pc' = "exit" /\ exc' = "KeyError"
    /\ UNCHANGED <<env, locals, cause, history>>

\* What a later cycle can read of the response an earlier cycle left behind:
\* `response is None` reads whether it is assigned and whether it is None;
\* everything else reads it after get_api_answer() has assigned it anew.
Stale(resp) == [Unbound EXCEPT !.type = resp.type]

\* `while True:` a cycle begins.
While ==
    /\ pc = "while"
    /\ pc' = "get_api_answer"
    /\ response' = Stale(response)
    /\ answer' = NoAnswer
    /\ sent' = <<>>
    /\ trace' = <<>>
    /\ timestamp0' = current_timestamp
    /\ report0' = prev_report
    /\ slept' = 0
    /\ previous' = IF answer.body.type = "dict" /\ answer.body.homeworks # <<>>
                   THEN message ELSE <<>>
    /\ UNCHANGED <<env, current_timestamp, current_report, prev_report, message,
                   exc, cause>>

\* response = get_api_answer(current_timestamp)
GetApiAnswer ==
    /\ pc = "get_api_answer"
    /\ \E a \in HttpAnswers :
         LET r == get_api_answer(a)
         IN  /\ answer' = a
             /\ trace' = Append(trace, "fetch")
             /\ IF r.exc = "none"
                THEN /\ response' = r.value
                     /\ pc' = "check_response"
                     /\ UNCHANGED <<exc, cause>>
                ELSE /\ exc' = r.exc
                     /\ cause' = r.exc
                     /\ pc' = "except"
                     /\ UNCHANGED response
    /\ UNCHANGED <<env, current_timestamp, current_report, prev_report, message,
                   sent, timestamp0, report0, slept, previous>>

\* statuses = check_response(response); if statuses:
CheckResponse ==
    /\ pc = "check_response"
    /\ LET r == check_response(response)
       IN  IF r.exc = "none"
           THEN /\ pc' = IF r.value # <<>> THEN "parse_status" ELSE "compare"
                /\ UNCHANGED <<exc, cause>>
           ELSE /\ exc' = r.exc
                /\ cause' = r.exc
                /\ pc' = "except"
    /\ UNCHANGED <<env, locals, history>>

\* status = statuses[0]; message = parse_status(status);
\* current_report[KEY] = status.get('status')
ParseStatus ==
    /\ pc = "parse_status"
    /\ LET status == First(statuses)
           r == parse_status(status)
       IN  IF r.exc = "none"
           THEN /\ message' = r.value
                /\ current_report' = DictSet(current_report, KEY, ReportValue(status))
                /\ pc' = "compare"
                /\ UNCHANGED <<exc, cause>>
           ELSE /\ exc' = r.exc
                /\ cause' = r.exc
                /\ pc' = "except"
                /\ UNCHANGED <<message, current_report>>
    /\ UNCHANGED <<env, current_timestamp, prev_report, response, history>>

\* if current_report != prev_report: send_message(bot, message);
\*     if send_message: prev_report = ...; current_timestamp = ...
Compare ==
    /\ pc = "compare"
    /\ IF ~ReportChanged(current_report, prev_report)
       THEN /\ pc' = "finally"
            /\ UNCHANGED <<current_timestamp, prev_report, exc, cause, sent, trace>>
       ELSE IF message = <<>>
       THEN /\ exc' = "UnboundLocalError"
            /\ cause' = "UnboundLocalError"
            /\ pc' = "except"
            /\ UNCHANGED <<current_timestamp, prev_report, sent, trace>>
       ELSE \E delivery \in Deliveries :
            LET r == send_message(delivery)
            IN  \* without a chat id the chat accepts no message
                /\ delivery = "ok" => TELEGRAM_CHAT_ID
                /\ trace' = Append(trace, "send")
                /\ IF r.exc # "none"
                   THEN /\ sent' = Append(sent, [text |-> message, ok |-> FALSE])
                        /\ exc' = r.exc
                        /\ cause' = r.exc
                        /\ pc' = "except"
                        /\ UNCHANGED <<current_timestamp, prev_report>>
                   ELSE /\ sent' = Append(sent, [text |-> message, ok |-> r.value])
                        /\ IF SendMessageIsTrue
                           THEN /\ prev_report' = current_report
                                /\ current_timestamp' =
                                     GetCurrentDate(response, current_timestamp)
                           ELSE UNCHANGED <<current_timestamp, prev_report>>
                        /\ pc' = "finally"
                        /\ UNCHANGED <<exc, cause>>
    /\ UNCHANGED <<env, current_report, response, message, answer, timestamp0,
                   report0, slept, previous>>

\* The except clauses of main(), entered with an exception in flight.
\* Were `except Exception` reached, it would assign message and
\* current_report and call logger.exception() without the message it
\* requires, which raises TypeError before anything is sent.
Except ==
    /\ pc = "except"
    /\ LET raised == ExceptClause(response)
       IN  IF raised # "none"
           THEN /\ exc' = raised
                /\ UNCHANGED <<message, current_report>>
           ELSE /\ message' = FailureMessage(exc)
                /\ current_report' = DictSet(current_report, KEY, message')
                /\ exc' = "TypeError"
    /\ pc' = "finally"
    /\ UNCHANGED <<env, current_timestamp, prev_report, response, cause, history>>

\* time.sleep(RETRY_TIME) as the last statement of the try body instead of
\* a finally clause: a cycle that raised does not sleep.
SleepInTryBody ==
    /\ pc = "finally"
    /\ trace' = IF exc = "none" THEN Append(trace, "sleep") ELSE trace
    /\ slept' = IF exc = "none" THEN slept + RETRY_TIME ELSE slept
    /\ pc' = IF exc = "none" THEN "while" ELSE "exit"
    /\ UNCHANGED <<env, locals, exc, cause, answer, sent, timestamp0, report0,
                   previous>>

\* finally: time.sleep(RETRY_TIME); then the loop goes on, or the exception
\* in flight leaves main().
Finally ==
    /\ pc = "finally"
    /\ trace' = Append(trace, "sleep")
    /\ slept' = slept + RETRY_TIME
    /\ pc' = IF exc = "none" THEN "while" ELSE "exit"
    /\ UNCHANGED <<env, locals, exc, cause, answer, sent, timestamp0, report0,
                   previous>>

Next ==
    \/ Main
    \/ While
    \/ GetApiAnswer
    \/ CheckResponse
    \/ ParseStatus
    \/ Compare
    \/ Except
    \/ Finally

Spec == Init /\ [][Next]_vars

(***************************************************************************)
(* Vocabulary of the properties.  The history variables describe the cycle *)
(* in progress; once its sleep is over (pc = "while" or pc = "exit", with  *)
(* a non-empty trace) they describe the whole cycle.                       *)
(***************************************************************************)
\* The loop has been entered and a cycle has run to its end, sleep included.
CycleOver == trace # <<>> /\ trace[Len(trace)] = "sleep"

\* The cycle is over and neither get_api_answer, check_response nor
\* parse_status (nor anything else in the try body) raised.
CycleSucceeded == CycleOver /\ cause = "none"

\* The cycle is over and its try body raised.
CycleFailed == CycleOver /\ cause # "none"

\* The successful cycle's answer held at least one record.
HasPrimary == answer.body.type = "dict" /\ answer.body.homeworks # <<>>

\* The primary record of the cycle's answer.
Primary == answer.body.homeworks[1]

\* The status last notified when the cycle began (None: nothing notified yet).
Notified0 == DictGet(report0, KEY)

\* Some call of bot.send_message() of this cycle failed.
DeliveryFailed == \E i \in DOMAIN sent : ~sent[i].ok

AnyTokenMissing == ~PRACTICUM_TOKEN \/ ~TELEGRAM_TOKEN \/ ~TELEGRAM_CHAT_ID

(***************************************************************************)
(* C1: every exception the try body of main's loop raises is caught at the *)
(* loop boundary: once an exception has been raised in a cycle, main is    *)
(* never left (the loop goes on to a next cycle).                          *)
(***************************************************************************)
C1_NothingLeavesTheLoop == cause # "none" => pc # "exit"

(***************************************************************************)
(* C2: a successful cycle whose primary record has a status other than the *)
(* one last notified calls the sender exactly once, with the text          *)
(* parse_status gives for that record's (homework_name, status).           *)
(***************************************************************************)
C2_OneNotificationOnChange ==
    (CycleSucceeded /\ HasPrimary /\ Primary.status # Notified0)
        => /\ Len(sent) = 1
           /\ sent[1].text = parse_status(Primary).value

\* A status was notified before, and this cycle notified a different one.
C2_Witness ==
    /\ CycleSucceeded /\ HasPrimary
    /\ Notified0 # None
    /\ Primary.status # Notified0
    /\ Len(sent) = 1

(***************************************************************************)
(* C3: a successful cycle whose primary record has the status last         *)
(* notified sends nothing and leaves the report state as it was; and a     *)
(* successful cycle leaves its primary status as the report state, so that *)
(* the next cycle with the same status is such a cycle.                    *)
(***************************************************************************)
C3_NoNotificationWhenUnchanged ==
    /\ (CycleSucceeded /\ HasPrimary /\ Primary.status = Notified0)
           => sent = <<>> /\ prev_report = report0
    /\ (CycleSucceeded /\ HasPrimary)
           => prev_report = DictSet(EmptyDict, KEY, Primary.status)

\* A cycle repeated the status already notified and sent nothing.
C3_Witness ==
    /\ CycleSucceeded /\ HasPrimary
    /\ Primary.status = Notified0
    /\ sent = <<>>

(***************************************************************************)
(* C4: the report state is updated only after a confirmed send: in a cycle *)
(* where send_message returned False, prev_report keeps the value it had   *)
(* when the cycle began.                                                   *)
(***************************************************************************)
C4_ReportKeptWhenSendFails == DeliveryFailed => prev_report = report0

(***************************************************************************)
(* C5: after a cycle in which fetch and validate succeeded, notification   *)
(* or not, the cursor is the answer's current_date if the answer has that  *)
(* key and the cursor's previous value otherwise.                          *)
(***************************************************************************)
C5_CursorFollowsCurrentDate ==
    CycleSucceeded
        => current_timestamp = GetCurrentDate(answer.body, timestamp0)

C7_FailedCycleNotifiesAndRetries ==
    CycleFailed
        => /\ Len(sent) = 1
           /\ current_timestamp = timestamp0
           /\ pc = "while"

(***************************************************************************)
(* C8: when the chat refuses a message, send_message returns False and     *)
(* raises nothing: no exception is in flight, the cycle goes on to its     *)
(* sleep and to the next cycle, and the send is not repeated in the cycle. *)
(***************************************************************************)
C8_DeliveryFailureIsSwallowed ==
    DeliveryFailed
        => /\ exc = "none" /\ cause = "none"
           /\ pc \in {"finally", "while"}
           /\ Len(sent) = 1

\* A cycle whose only send failed is over, and the loop is at its next cycle.
C8_Witness == DeliveryFailed /\ CycleOver /\ pc = "while"

(***************************************************************************)
(* C9: if any of the three credentials is missing, main ends before the    *)
(* loop: it never fetches and never sends.                                 *)
(***************************************************************************)
C9_MissingTokenPreventsLoop ==
    AnyTokenMissing => pc \in {"main", "exit"} /\ trace = <<>> /\ sent = <<>>

(***************************************************************************)
(* C10: get_api_answer reports each failure as its own kind: a status code *)
(* other than 200 as WrongResponse, a body that is not JSON as the         *)
(* JSON-decode error, a network failure as the request error.              *)
(***************************************************************************)
C10_FailureKindsAreDistinguished ==
    /\ (answer.error = "none" /\ answer.status_code # HTTP_OK)
           => cause = "WrongResponse"
    /\ (answer.error = "none" /\ answer.status_code = HTTP_OK
           /\ answer.json = "invalid")
           => cause = "JSONDecodeError"
    /\ answer.error = "RequestException" => cause = "RequestError"

(***************************************************************************)
(* Vocabulary of the later properties.                                     *)
(***************************************************************************)
\* The body get_api_answer() returned in this cycle, once it has returned.
Body == answer.body

\* check_response() has acted on this cycle's body.
Validated ==
    Body.type = "dict" /\ pc \in {"parse_status", "compare", "except",
                                  "finally", "while", "exit"}

\* parse_status() has acted on this cycle's primary record.
Parsed ==
    /\ HasPrimary
    /\ check_response(Body).exc = "none"
    /\ pc \in {"compare", "except", "finally", "while", "exit"}

\* How often an event occurs in a trace.
Count(seq, event) == Cardinality({i \in DOMAIN seq : seq[i] = event})

\* The texts of the notifications of this cycle.
Texts == [i \in DOMAIN sent |-> sent[i].text]

\* The body is exactly {"homeworks": []}.
EmptyAnswer ==
    /\ Body.type = "dict"
    /\ Body.keys = {"homeworks"}
    /\ Body.homeworks_type = "list"
    /\ Body.homeworks = <<>>

(***************************************************************************)
(* C11: for a response object, check_response raises EmptyAnswersAPI when  *)
(* the key 'homeworks' is absent, another error when its value is no list, *)
(* and otherwise returns the list as it is, an empty one included; the     *)
(* cycle sees exactly that: the error in flight, or no error.              *)
(***************************************************************************)
C11_CheckResponseOutcomes ==
    Body.type = "dict"
        => LET r == check_response(Body)
           IN  /\ "homeworks" \notin Body.keys => r.exc = "EmptyAnswersAPI"
               /\ ("homeworks" \in Body.keys /\ Body.homeworks_type # "list")
                      => r.exc \notin {"none", "EmptyAnswersAPI"}
               /\ ("homeworks" \in Body.keys /\ Body.homeworks_type = "list")
                      => r.exc = "none" /\ r.value = Body.homeworks
               /\ (Validated /\ r.exc # "none") => cause = r.exc
               /\ (Validated /\ r.exc = "none" /\ Body.homeworks = <<>>)
                      => cause = "none"

\* An empty list has passed check_response() and the cycle goes on.
C11_Witness ==
    /\ Validated /\ "homeworks" \in Body.keys /\ Body.homeworks_type = "list"
    /\ Body.homeworks = <<>>
    /\ pc = "compare" /\ cause = "none"

(***************************************************************************)
(* C12: parse_status raises the missing-field error when homework_name or  *)
(* status is absent or null, the unknown-status error when both are there  *)
(* and the status is outside the verdict table, and returns a message only *)
(* when both are there and the status is in the table; a cycle whose       *)
(* primary record raises sends nothing and leaves the report state.        *)
(***************************************************************************)
C12_ParseStatusOutcomes ==
    Parsed
        => LET r == parse_status(Primary)
               missing == Primary.homework_name = None \/ Primary.status = None
               known == Primary.status \in {"approved", "reviewing", "rejected"}
           IN  /\ missing => r.exc = "KeyError"
               /\ (~missing /\ ~known) => r.exc = "ValueError"
               /\ (r.exc = "none") <=> (~missing /\ known)
               /\ r.exc # "none"
                      => /\ cause = r.exc
                         /\ sent = <<>>
                         /\ prev_report = report0
                         /\ current_report = report0

\* A cycle whose primary record has an unknown status is over.
C12_Witness ==
    /\ Parsed /\ CycleOver
    /\ Primary.status = "unknown" /\ Primary.homework_name # None
    /\ cause = "ValueError"

(***************************************************************************)
(* C13: a cycle whose response is {"homeworks": []} sends nothing, raises  *)
(* nothing and leaves the cursor and the report state as they were.        *)
(***************************************************************************)
C13_EmptyAnswerChangesNothing ==
    (EmptyAnswer /\ CycleOver)
        => /\ sent = <<>>
           /\ cause = "none" /\ exc = "none"
           /\ current_timestamp = timestamp0
           /\ prev_report = report0
           /\ pc = "while"

\* An empty answer arrived after a status had been notified.
C13_Witness == EmptyAnswer /\ CycleOver /\ Notified0 # None

(***************************************************************************)
(* C14: only the first record of a response drives the cycle.  CycleOutcome*)
(* is what one cycle makes of a response, from the report state and the    *)
(* cursor it starts with.  Every cycle ends as CycleOutcome says for its   *)
(* response cut down to its first record; hence two responses with the     *)
(* same first record and the same current_date, both equal to that one     *)
(* when cut down, send the same texts and reach the same report state and  *)
(* cursor (and raise the same error), whatever their later records are.    *)
(***************************************************************************)
CycleOutcome(resp, report, cursor) ==
    LET unchanged(error) == [texts |-> <<>>, report |-> report,
                             cursor |-> cursor, cause |-> error]
        v == check_response(resp)
    IN  IF v.exc # "none" THEN unchanged(v.exc)
        ELSE IF v.value = <<>> THEN unchanged("none")
        ELSE LET p == parse_status(First(v.value))
                 current == DictSet(report, KEY, ReportValue(First(v.value)))
             IN  IF p.exc # "none" THEN unchanged(p.exc)
                 ELSE IF ~ReportChanged(current, report) THEN unchanged("none")
                 ELSE [texts |-> <<p.value>>, report |-> current,
                       cursor |-> GetCurrentDate(resp, cursor),
                       cause |-> "none"]

C14_OnlyFirstRecordCounts ==
    (CycleOver /\ Body.type = "dict" /\ Body.homeworks # <<>>)
        => CycleOutcome([Body EXCEPT !.homeworks = <<Primary>>],
                        report0, timestamp0)
             = [texts |-> Texts, report |-> prev_report,
                cursor |-> current_timestamp, cause |-> cause]

\* A notification was sent for a response whose second record is invalid.
C14_Witness ==
    /\ CycleOver /\ Body.type = "dict" /\ Len(Body.homeworks) >= 2
    /\ Body.homeworks[2].status \in {None, "unknown"}
    /\ Body.homeworks[2] # Primary
    /\ sent # <<>>

(***************************************************************************)
(* C15: every cycle, failed or not, ends with exactly one sleep of         *)
(* RETRY_TIME, which comes after the cycle's fetch and send; a fetch is    *)
(* the first event of its cycle, so a sleep lies between any two fetches.  *)
(***************************************************************************)
C15_OneSleepEndsEachCycle ==
    /\ Count(trace, "fetch") <= 1
    /\ \A i \in DOMAIN trace : trace[i] = "sleep" => i = Len(trace)
    /\ pc = "get_api_answer" => trace = <<>>
    /\ (pc \in {"while", "exit"} /\ trace # <<>>)
           => /\ trace[1] = "fetch"
              /\ trace[Len(trace)] = "sleep"
              /\ slept = RETRY_TIME
    /\ (pc \notin {"while", "exit"}) => slept = 0

\* A failed cycle has slept before main() is left.
C15_Witness ==
    pc = "exit" /\ cause # "none" /\ trace = <<"fetch", "sleep">>

(***************************************************************************)
(* C16: get_api_answer returns only when the status is 200 and the body    *)
(* parsed, and then returns the parsed body; every failure reaches the     *)
(* loop as a raised error, never as a silent return of None.               *)
(***************************************************************************)
C16_ReturnsOnlyParsedBody ==
    pc = "check_response"
        => /\ answer.error = "none"
           /\ answer.status_code = HTTP_OK
           /\ answer.json = "valid"
           /\ response = Body
           /\ response.type # "None"

(***************************************************************************)
(* C17: when a cycle begins, current_report equals prev_report; so every   *)
(* message handed to send_message is the one parse_status produced from    *)
(* the first record of that same cycle.                                    *)
(***************************************************************************)
C17_ReportsAgreeAtCycleStart ==
    /\ pc \in {"while", "get_api_answer"} => current_report = prev_report
    /\ sent # <<>>
           => /\ Body.type = "dict" /\ Body.homeworks # <<>>
              /\ \A i \in DOMAIN sent : sent[i].text = parse_status(Primary).value

\* A message parsed by an earlier cycle was at hand when this cycle sent its own.
C17_Witness ==
    /\ CycleOver /\ pc = "while"
    /\ sent # <<>>
    /\ previous # <<>> /\ previous # sent[1].text

(***************************************************************************)
(* C18: the report state holds the first record's status only: when the    *)
(* cycle before parsed a record and this successful cycle's first record   *)
(* has another homework_name and the same status, this cycle sends nothing *)
(* and advances neither the report state nor the cursor.                   *)
(***************************************************************************)
\* The name and the verdict in a text parse_status() returned.
NameIn(text) == text[2]
VerdictIn(text) == text[4]

C18_SameStatusOtherName ==
    (/\ CycleSucceeded /\ HasPrimary
     /\ previous # <<>>
     /\ NameIn(previous) # Primary.homework_name
     /\ VerdictIn(previous) = VerdictIn(message))
        => /\ sent = <<>>
           /\ prev_report = report0
           /\ current_timestamp = timestamp0

\* Such a cycle, answered with a current_date the cursor did not take.
C18_Witness ==
    /\ CycleSucceeded /\ HasPrimary
    /\ previous # <<>>
    /\ NameIn(previous) # Primary.homework_name
    /\ VerdictIn(previous) = VerdictIn(message)
    /\ "current_date" \in Body.keys
    /\ Body.current_date # current_timestamp
    /\ sent = <<>>

====
